---- MODULE Spec2Model ----
(***************************************************************************)
(* Model of the stats collector scripts/fetch-stats.js: the delta codec    *)
(* (isDelta, resolveSnapshot, resolveAllSnapshots, encodeAsDeltas), the    *)
(* retention policy (aggregateSnapshots, applyRetentionPolicy), the merge  *)
(* (processImages), the run (main, readGistData, updateGist) and the       *)
(* refresh of the listing (getRefreshTier, refreshImageStats,              *)
(* fetchImageStats, fetchWithRetry); and of the chart data of the stats    *)
(* page, extension/stats-page/stats.js (resolveSnapshots,                  *)
(* filterByTimeRange, computeDeltas, getChartData).                        *)
(*                                                                         *)
(* A snapshot is a function from key names to integers; a key the object   *)
(* does not have is a key outside its DOMAIN.  Time is counted in ticks of *)
(* 1/TicksPerHour hour instead of milliseconds.                            *)
(***************************************************************************)
EXTENDS Integers, Sequences, FiniteSets, TLC

\* ------------------------------------------------------------------ bounds
MaxRuns == 3         \* runs of main() in one behaviour
MaxLen == 3          \* length of the sequences given to the codec
TicksPerHour == 1    \* resolution of the clock
MaxSnaps == 4        \* length of the sequences given to the retention policy
MaxImages == 6       \* images of the listing given to the refresh

\* --------------------------------------------------------------- constants
STATS_BATCH_SIZE == 5
MAX_RETRIES == 3
INITIAL_BACKOFF_MS == 1000
HOURLY_RETENTION_DAYS == 7
SIX_HOUR_RETENTION_DAYS == 30

Entities == {1, 2}
ClockSteps == {1 * TicksPerHour, 16 * 24 * TicksPerHour}

FieldNames == {"likes", "hearts", "laughs", "cries", "comments"}
DeltaKeys == {"dl", "dh", "dla", "dc", "dco", "_d"}

\* the d* key that encodeAsDeltas and the resolvers pair with each field
DeltaKeyOf(f) ==
  CASE f = "likes" -> "dl"
    [] f = "hearts" -> "dh"
    [] f = "laughs" -> "dla"
    [] f = "cries" -> "dc"
    [] f = "comments" -> "dco"

\* the upstream stats key that processImages reads for each field
StatKeyOf(f) ==
  CASE f = "likes" -> "likeCount"
    [] f = "hearts" -> "heartCount"
    [] f = "laughs" -> "laughCount"
    [] f = "cries" -> "cryCount"
    [] f = "comments" -> "commentCount"

\* JavaScript `obj.k || 0`: a missing key, like the value 0, reads as 0
Get(s, k) == IF k \in DOMAIN s THEN s[k] ELSE 0

MaxOf(a, b) == IF a >= b THEN a ELSE b

\* a counter object, its five fields written out as the source writes them
ForFields(F(_)) ==
  [likes |-> F("likes"), hearts |-> F("hearts"), laughs |-> F("laughs"),
   cries |-> F("cries"), comments |-> F("comments")]

ZeroCounters == ForFields(LAMBDA f : 0)

\* the five counters of an absolute snapshot, without its other keys
CountersOf(s) == ForFields(LAMBDA f : Get(s, f))

SumFields(c) ==
  c["likes"] + c["hearts"] + c["laughs"] + c["cries"] + c["comments"]

\* counter vectors with a bounded sum
SmallCounters(m) == {c \in [FieldNames -> 0..m] : SumFields(c) <= m}

\* ------------------------------------------------------------------ codec

isDelta(snapshot) ==
  \E k \in DeltaKeys : k \in DOMAIN snapshot

\* sum of the d* values of key k over the delta entries snapshots[from..to]
RECURSIVE ApplyDeltas(_, _, _, _)
ApplyDeltas(snapshots, from, to, k) ==
  IF from > to THEN 0
  ELSE (IF isDelta(snapshots[from]) THEN Get(snapshots[from], k) ELSE 0)
       + ApplyDeltas(snapshots, from + 1, to, k)

\* index of the nearest absolute entry at or before index, 0 when there is none
RECURSIVE NearestAbsolute(_, _)
NearestAbsolute(snapshots, i) ==
  IF i < 1 THEN 0
  ELSE IF ~isDelta(snapshots[i]) THEN i
  ELSE NearestAbsolute(snapshots, i - 1)

resolveSnapshotNoBase(snapshots, index) ==
  ForFields(LAMBDA f : ApplyDeltas(snapshots, 1, index, DeltaKeyOf(f)))
  @@ [timestamp |-> snapshots[index]["timestamp"]]

resolveSnapshot(snapshots, index) ==
  LET b == NearestAbsolute(snapshots, index)
      base == IF b = 0 THEN ZeroCounters ELSE CountersOf(snapshots[b])
  IN  ForFields(LAMBDA f :
         base[f] + ApplyDeltas(snapshots, b + 1, index, DeltaKeyOf(f)))
      @@ [timestamp |-> snapshots[index]["timestamp"]]

RECURSIVE ResolveFrom(_, _, _)
ResolveFrom(snapshots, i, current) ==
  IF i > Len(snapshots) THEN <<>>
  ELSE LET s == snapshots[i]
           next == IF isDelta(s)
                   THEN ForFields(LAMBDA f : current[f] + Get(s, DeltaKeyOf(f)))
                   ELSE CountersOf(s)
       IN  <<next @@ [timestamp |-> s["timestamp"]]>>
           \o ResolveFrom(snapshots, i + 1, next)

resolveAllSnapshots(snapshots) == ResolveFrom(snapshots, 1, ZeroCounters)

\* DeltaFields with a d* key for every field, changed or not
DeltaFieldsAllFields(prev, curr) ==
  [dl |-> curr["likes"] - prev["likes"], dh |-> curr["hearts"] - prev["hearts"],
   dla |-> curr["laughs"] - prev["laughs"], dc |-> curr["cries"] - prev["cries"],
   dco |-> curr["comments"] - prev["comments"], timestamp |-> curr["timestamp"]]

\* the delta object built for curr after prev, before any marker: the timestamp
\* and a d* key for each field whose difference is not zero
DeltaFields(prev, curr) ==
  LET changed == {f \in FieldNames : curr[f] - prev[f] # 0}
  IN  [k \in {DeltaKeyOf(f) : f \in changed} |->
         LET f == CHOOSE g \in changed : DeltaKeyOf(g) = k
         IN  curr[f] - prev[f]]
      @@ [timestamp |-> curr["timestamp"]]

DeltaEntryNoMarker(prev, curr) == DeltaFields(prev, curr)

\* the delta object with the _d marker set when no d* key is
DeltaEntry(prev, curr) ==
  LET delta == DeltaFields(prev, curr)
  IN  IF DOMAIN delta = {"timestamp"} THEN delta @@ [_d |-> 1] ELSE delta

encodeAsDeltas(absoluteSnapshots) ==
  IF Len(absoluteSnapshots) = 0 THEN <<>>
  ELSE [i \in 1..Len(absoluteSnapshots) |->
          IF i = 1 THEN absoluteSnapshots[1]
          ELSE DeltaEntry(absoluteSnapshots[i - 1], absoluteSnapshots[i])]

\* ------------------------------------------------------------- stats page
\* src/extension/stats-page/stats.js: the snapshots behind the overview chart

\* the fields of a resolved snapshot of the page
PageFieldNames == FieldNames \cup {"buzz", "collects", "views"}

PageDeltaKeyOf(f) ==
  CASE f = "buzz" -> "dbu"
    [] f = "collects" -> "dcol"
    [] f = "views" -> "dvi"
    [] OTHER -> DeltaKeyOf(f)

\* the test of line 94
PageIsDelta(s) ==
  \E k \in {PageDeltaKeyOf(f) : f \in PageFieldNames} \cup {"_d"} : k \in DOMAIN s

RECURSIVE PageResolveFrom(_, _, _)
PageResolveFrom(snapshots, i, current) ==
  IF i > Len(snapshots) THEN <<>>
  ELSE LET s == snapshots[i]
           next == IF PageIsDelta(s)
                   THEN [f \in PageFieldNames |-> current[f] + Get(s, PageDeltaKeyOf(f))]
                   ELSE [f \in PageFieldNames |-> Get(s, f)]
       IN  <<next @@ [timestamp |-> s["timestamp"]]>>
           \o PageResolveFrom(snapshots, i + 1, next)

resolveSnapshots(snapshots) ==
  PageResolveFrom(snapshots, 1, [f \in PageFieldNames |-> 0])

TimeRanges == {"1d", "7d", "30d", "90d", "1y", "all"}

\* the table of filterByTimeRange, in days
RangeDays(range) ==
  CASE range = "1d" -> 1
    [] range = "7d" -> 7
    [] range = "30d" -> 30
    [] range = "90d" -> 90
    [] range = "1y" -> 365

filterByTimeRange(snapshots, range, now) ==
  IF range = "all" THEN snapshots
  ELSE LET threshold == now - RangeDays(range) * 24 * TicksPerHour
       IN  SelectSeq(snapshots, LAMBDA s : s["timestamp"] >= threshold)

isDeltaMode(timeRange) == timeRange \in {"1d", "7d", "30d", "90d"}

computeDeltas(snapshots) ==
  IF Len(snapshots) < 2 THEN <<>>
  ELSE [i \in 1..(Len(snapshots) - 1) |->
          [f \in PageFieldNames |->
             IF snapshots[i + 1][f] - snapshots[i][f] > 0
             THEN snapshots[i + 1][f] - snapshots[i][f] ELSE 0]
          @@ [timestamp |-> snapshots[i + 1]["timestamp"]]]

\* getChartData with the window cut from the stored entries before they are
\* resolved
getChartDataFilterFirst(totalSnapshots, range, now) ==
  LET resolved == resolveSnapshots(filterByTimeRange(totalSnapshots, range, now))
  IN  IF isDeltaMode(range) THEN computeDeltas(resolved) ELSE resolved

\* the snapshots of getChartData, from which the labels and datasets are mapped
getChartData(totalSnapshots, range, now) ==
  LET resolved == filterByTimeRange(resolveSnapshots(totalSnapshots), range, now)
  IN  IF isDeltaMode(range) THEN computeDeltas(resolved) ELSE resolved

\* -------------------------------------------------------------- retention

\* the state of the loop of aggregateSnapshots before its first iteration;
\* currentBucket is a sequence of at most one snapshot (empty for null) and
\* currentBucketStart is -1 for null
AggregateStart == [currentBucket |-> <<>>, currentBucketStart |-> -1, aggregated |-> <<>>]

\* one iteration of the loop of aggregateSnapshots
AggregateStep(st, snapshot, intervalMs) ==
  LET bucketStart == (snapshot["timestamp"] \div intervalMs) * intervalMs
  IN  IF st.currentBucketStart # bucketStart
      THEN [currentBucket |-> <<snapshot>>,
            currentBucketStart |-> bucketStart,
            aggregated |-> st.aggregated \o st.currentBucket]
      ELSE [st EXCEPT !.currentBucket = <<snapshot>>]

\* the iterations of the loop for entries lo..hi in order, from state st; the
\* range is halved, and the state after the first half is computed (the test
\* on its length, which always holds) before the second half starts, so that
\* the evaluation nests no deeper than the logarithm of the range
RECURSIVE AggregateLoop(_, _, _, _, _)
AggregateLoop(snapshots, lo, hi, intervalMs, st) ==
  IF lo > hi THEN st
  ELSE IF lo = hi THEN AggregateStep(st, snapshots[lo], intervalMs)
  ELSE LET mid == (lo + hi) \div 2
           first == AggregateLoop(snapshots, lo, mid, intervalMs, st)
       IN  IF Len(first.aggregated) >= 0
           THEN AggregateLoop(snapshots, mid + 1, hi, intervalMs, first)
           ELSE first

\* aggregateSnapshots without lines 486-488: the last bucket is not pushed
aggregateSnapshotsNoFlush(snapshots, intervalHours) ==
  IF Len(snapshots) = 0 THEN <<>>
  ELSE AggregateLoop(snapshots, 1, Len(snapshots), intervalHours * TicksPerHour,
                     AggregateStart).aggregated

\* the iteration with line 483 inside the test of line 476: the first snapshot
\* of a bucket is kept
AggregateStepKeepFirst(st, snapshot, intervalMs) ==
  LET bucketStart == (snapshot["timestamp"] \div intervalMs) * intervalMs
  IN  IF st.currentBucketStart # bucketStart
      THEN [currentBucket |-> <<snapshot>>,
            currentBucketStart |-> bucketStart,
            aggregated |-> st.aggregated \o st.currentBucket]
      ELSE st

RECURSIVE AggregateLoopKeepFirst(_, _, _, _, _)
AggregateLoopKeepFirst(snapshots, lo, hi, intervalMs, st) ==
  IF lo > hi THEN st
  ELSE IF lo = hi THEN AggregateStepKeepFirst(st, snapshots[lo], intervalMs)
  ELSE LET mid == (lo + hi) \div 2
           first == AggregateLoopKeepFirst(snapshots, lo, mid, intervalMs, st)
       IN  IF Len(first.aggregated) >= 0
           THEN AggregateLoopKeepFirst(snapshots, mid + 1, hi, intervalMs, first)
           ELSE first

aggregateSnapshotsKeepFirst(snapshots, intervalHours) ==
  IF Len(snapshots) = 0 THEN <<>>
  ELSE LET st == AggregateLoopKeepFirst(snapshots, 1, Len(snapshots),
                                        intervalHours * TicksPerHour, AggregateStart)
       IN  st.aggregated \o st.currentBucket

aggregateSnapshots(snapshots, intervalHours) ==
  IF Len(snapshots) = 0 THEN <<>>
  ELSE LET st == AggregateLoop(snapshots, 1, Len(snapshots),
                               intervalHours * TicksPerHour, AggregateStart)
       IN  st.aggregated \o st.currentBucket

\* Array.prototype.sort with the timestamp comparator: a stable sort
RECURSIVE InsertByTimestamp(_, _)
InsertByTimestamp(sorted, s) ==
  IF Len(sorted) = 0 THEN <<s>>
  ELSE IF sorted[Len(sorted)]["timestamp"] <= s["timestamp"] THEN Append(sorted, s)
  ELSE Append(InsertByTimestamp(SubSeq(sorted, 1, Len(sorted) - 1), s),
              sorted[Len(sorted)])

\* the entries lo..hi of seq inserted in order into sorted; the range is
\* halved as in AggregateLoop
RECURSIVE SortRange(_, _, _, _)
SortRange(seq, lo, hi, sorted) ==
  IF lo > hi THEN sorted
  ELSE IF lo = hi THEN InsertByTimestamp(sorted, seq[lo])
  ELSE LET mid == (lo + hi) \div 2
           first == SortRange(seq, lo, mid, sorted)
       IN  IF Len(first) >= 0 THEN SortRange(seq, mid + 1, hi, first) ELSE first

SortByTimestamp(seq) == SortRange(seq, 1, Len(seq), <<>>)

applyRetentionPolicy(snapshots, now) ==
  LET hourlyThreshold == now - HOURLY_RETENTION_DAYS * 24 * TicksPerHour
      sixHourThreshold == now - SIX_HOUR_RETENTION_DAYS * 24 * TicksPerHour
      hourlySnapshots ==
        SelectSeq(snapshots, LAMBDA s : s["timestamp"] >= hourlyThreshold)
      sixHourSnapshots ==
        SelectSeq(snapshots, LAMBDA s : s["timestamp"] < hourlyThreshold
                                        /\ s["timestamp"] >= sixHourThreshold)
      dailySnapshots ==
        SelectSeq(snapshots, LAMBDA s : s["timestamp"] < hourlyThreshold
                                        /\ s["timestamp"] < sixHourThreshold)
      aggregatedSixHour == aggregateSnapshots(sixHourSnapshots, 6)
      aggregatedDaily == aggregateSnapshots(dailySnapshots, 24)
  IN  SortByTimestamp(aggregatedDaily \o aggregatedSixHour \o hourlySnapshots)

\* ------------------------------------------------------------------ merge

NullTime == -1

\* String(img.id)
String(id) == ToString(id)

createEmptyStats ==
  [lastUpdated |-> NullTime, totalSnapshots |-> <<>>, images |-> <<>>]

\* the upstream stats object of a counter vector
StatsOf(c) == [k \in {StatKeyOf(f) : f \in FieldNames} |->
                 c[CHOOSE f \in FieldNames : StatKeyOf(f) = k]]

\* apiLikes .. apiComments (img.stats?.likeCount || 0, ...)
ApiCounters(img) == ForFields(LAMBDA f : Get(img["stats"], StatKeyOf(f)))

\* existingImageMap.get(String(img.id))?.snapshots || []
ExistingSnapshots(existingImages, id) ==
  LET at == {i \in 1..Len(existingImages) : existingImages[i]["id"] = String(id)}
  IN  IF at = {} THEN <<>>
      ELSE existingImages[CHOOSE i \in at : \A j \in at : j <= i]["snapshots"]

\* lastSnapshot: a sequence holding the resolved last snapshot, empty for null
LastSnapshot(snapshots) ==
  IF Len(snapshots) > 0 THEN <<resolveSnapshot(snapshots, Len(snapshots))>> ELSE <<>>

\* lastSnapshot?.likes || 0, ...
LastKnown(last) == IF Len(last) = 0 THEN ZeroCounters ELSE CountersOf(last[1])

ClampNoMax(api, lastKnown) == api

\* the clamp: Math.max(api, last) for each field
Clamp(api, lastKnown) == ForFields(LAMBDA f : MaxOf(api[f], lastKnown[f]))

ClampLoggedOnEqual(api, last) ==
  /\ Len(last) > 0
  /\ \E f \in FieldNames : api[f] <= last[1][f]

\* whether the "Clamped stale API stats" line is printed
ClampLogged(api, last) ==
  /\ Len(last) > 0
  /\ \E f \in FieldNames : api[f] < last[1][f]

\* hasChanged
HasChanged(last, counters) ==
  \/ Len(last) = 0
  \/ \E f \in FieldNames : last[1][f] # counters[f]

\* PushSnapshot without the test of hasChanged
PushSnapshotNoCheck(snapshots, last, counters, timestamp) ==
  IF Len(last) = 0
  THEN Append(snapshots, counters @@ [timestamp |-> timestamp])
  ELSE Append(snapshots, DeltaEntry(last[1], counters @@ [timestamp |-> timestamp]))

\* the snapshots array after the conditional push
PushSnapshot(snapshots, last, counters, timestamp) ==
  IF ~HasChanged(last, counters) THEN snapshots
  ELSE IF Len(last) = 0
       THEN Append(snapshots, counters @@ [timestamp |-> timestamp])
       ELSE LET delta == DeltaFields(last[1], counters @@ [timestamp |-> timestamp])
            IN  IF Cardinality(DOMAIN delta) > 1
                THEN Append(snapshots, delta)
                ELSE snapshots

\* resolve to absolute, retain, re-encode as deltas
Retain(snapshots, now) ==
  encodeAsDeltas(applyRetentionPolicy(resolveAllSnapshots(snapshots), now))

\* the callback of apiImages.map in processImages, for one image
ProcessImage(img, existingImages, timestamp) ==
  LET api == ApiCounters(img)
      snapshots == ExistingSnapshots(existingImages, img["id"])
      last == LastSnapshot(snapshots)
      counters == Clamp(api, LastKnown(last))
  IN  [image |-> [id |-> String(img["id"]),
                  snapshots |-> Retain(PushSnapshot(snapshots, last, counters, timestamp),
                                       timestamp)],
       counters |-> counters,
       clamped |-> ClampLogged(api, last)]

RECURSIVE SumOver(_, _)
SumOver(seq, f) ==
  IF Len(seq) = 0 THEN 0 ELSE seq[1][f] + SumOver(Tail(seq), f)

\* apiImages.map(...) from image i on
RECURSIVE ProcessFrom(_, _, _, _)
ProcessFrom(apiImages, i, existingImages, timestamp) ==
  IF i > Len(apiImages) THEN <<>>
  ELSE <<ProcessImage(apiImages[i], existingImages, timestamp)>>
       \o ProcessFrom(apiImages, i + 1, existingImages, timestamp)

RECURSIVE Column(_, _)
Column(seq, k) ==
  IF Len(seq) = 0 THEN <<>> ELSE <<seq[1][k]>> \o Column(Tail(seq), k)

\* processImages with the totals summed from the API values, before the clamp
processImagesSumsApi(apiImages, existingImages, timestamp) ==
  LET done == ProcessFrom(apiImages, 1, existingImages, timestamp)
      api == [i \in 1..Len(apiImages) |-> ApiCounters(apiImages[i])]
  IN  [images |-> Column(done, "image"),
       totalSnapshot |->
         ForFields(LAMBDA f : SumOver(api, f))
         @@ [timestamp |-> timestamp, imageCount |-> Len(done)],
       counters |-> Column(done, "counters"),
       clamped |-> {apiImages[i]["id"] : i \in {j \in 1..Len(done) : done[j]["clamped"]}}]

processImages(apiImages, existingImages, timestamp) ==
  LET done == ProcessFrom(apiImages, 1, existingImages, timestamp)
      counters == Column(done, "counters")
  IN  [images |-> Column(done, "image"),
       totalSnapshot |->
         ForFields(LAMBDA f : SumOver(counters, f))
         @@ [timestamp |-> timestamp, imageCount |-> Len(done)],
       counters |-> counters,
       clamped |-> {apiImages[i]["id"] : i \in {j \in 1..Len(done) : done[j]["clamped"]}}]

\* PushTotal as append-if-changed: an unchanged total is not pushed
PushTotalIfChanged(totalSnapshots, totalSnapshot) ==
  IF Len(totalSnapshots) > 0
  THEN LET prevTotal == resolveSnapshot(totalSnapshots, Len(totalSnapshots))
       IN  IF CountersOf(prevTotal) = CountersOf(totalSnapshot)
           THEN totalSnapshots
           ELSE Append(totalSnapshots,
                       DeltaEntry(prevTotal, totalSnapshot)
                       @@ [imageCount |-> totalSnapshot["imageCount"]])
  ELSE Append(totalSnapshots, totalSnapshot)

\* PushTotal without lines 806-808: an unchanged total is pushed unmarked
PushTotalNoMarker(totalSnapshots, totalSnapshot) ==
  IF Len(totalSnapshots) > 0
  THEN LET prevTotal == resolveSnapshot(totalSnapshots, Len(totalSnapshots))
       IN  Append(totalSnapshots,
                  DeltaFields(prevTotal, totalSnapshot)
                  @@ [imageCount |-> totalSnapshot["imageCount"]])
  ELSE Append(totalSnapshots, totalSnapshot)

\* main: the new total snapshot appended to the loaded ones, as a delta if possible
PushTotal(totalSnapshots, totalSnapshot) ==
  IF Len(totalSnapshots) > 0
  THEN LET prevTotal == resolveSnapshot(totalSnapshots, Len(totalSnapshots))
       IN  Append(totalSnapshots,
                  DeltaEntry(prevTotal, totalSnapshot)
                  @@ [imageCount |-> totalSnapshot["imageCount"]])
  ELSE Append(totalSnapshots, totalSnapshot)

\* copy imageCount from from[i] to to[i] where from[i] has one
AttachImageCount(to, from) ==
  [i \in 1..Len(to) |->
     IF i <= Len(from) /\ "imageCount" \in DOMAIN from[i]
     THEN [imageCount |-> from[i]["imageCount"]] @@ to[i]
     ELSE to[i]]

\* main: retention of the total snapshots, imageCount kept through the cycle
RetainTotal(totalSnapshots, now) ==
  LET resolvedTotal ==
        applyRetentionPolicy(
          AttachImageCount(resolveAllSnapshots(totalSnapshots), totalSnapshots), now)
  IN  AttachImageCount(encodeAsDeltas(resolvedTotal), resolvedTotal)

\* main: newImageSnapshotCount
RECURSIVE SnapshotCount(_)
SnapshotCount(images) ==
  IF Len(images) = 0 THEN 0
  ELSE Len(images[1]["snapshots"]) + SnapshotCount(Tail(images))

\* main, line 844: whether the safety check is evaluated
GateEvaluated(snapshotsBefore) == snapshotsBefore > 1

GateAbortsOffByOne(snapshotsBefore, images) ==
  /\ snapshotsBefore > 1
  /\ SnapshotCount(images) + 1 < Len(images)

\* main: whether the safety check exits ("DATA LOSS DETECTED")
GateAborts(snapshotsBefore, images) ==
  /\ snapshotsBefore > 1
  /\ SnapshotCount(images) < Len(images)

\* -------------------------------------------------------------------- run

\* what the Gist holds under stats.json: no such file, an empty or blank
\* content, the content {}, a content that is no JSON, a JSON value without
\* totalSnapshots or images, or a document
GistFiles == {"missing", "empty", "braces", "unparsable", "invalid", "doc"}

\* what can go wrong on the way to the content: nothing, octokit.gists.get
\* throws, or the file is truncated and the fetch of its raw_url fails
Faults == {"none", "request", "raw_url"}

readGistDataStartEmptyOnError(fault, file, stored) ==
  IF file = "doc" /\ fault = "none"
  THEN [kind |-> "data", data |-> stored]
  ELSE [kind |-> "empty", data |-> createEmptyStats]

\* readGistData: "exit" stands for process.exit(1) in its catch block
readGistData(fault, file, stored) ==
  IF fault = "request" THEN [kind |-> "exit", data |-> createEmptyStats]
  ELSE IF file = "missing" THEN [kind |-> "empty", data |-> createEmptyStats]
  ELSE IF fault = "raw_url" THEN [kind |-> "exit", data |-> createEmptyStats]
  ELSE IF file \in {"empty", "braces"} THEN [kind |-> "empty", data |-> createEmptyStats]
  ELSE IF file \in {"unparsable", "invalid"} THEN [kind |-> "exit", data |-> createEmptyStats]
  ELSE [kind |-> "data", data |-> stored]

VARIABLES
  gistFile,       \* the kind of content stored under stats.json
  gist,           \* the stored document, when gistFile = "doc"
  clock,          \* the time
  runs,           \* runs of main() started so far
  pc,             \* where main() is: start, fetched, loaded, merged, gated, done
  exitCode,       \* the exit code of the run, once pc = "done"
  outcome,        \* how the run ended, once pc = "done"
  apiImages,      \* main: the listing, after the refresh
  existingData,   \* main: the loaded document, updated in place
  snapshotsBefore,\* main: the total snapshots count before retention
  load,           \* what readGistData met: its inputs and the kind of its result
  loadedImages,   \* existingData.images as loaded
  loadedTotals,   \* existingData.totalSnapshots.length as loaded
  steps,          \* the steps of main() completed in this run
  merge,          \* what processImages returned in this run
  saveCalls,      \* calls of updateGist in this run
  startGist,      \* gistFile and gist when the run started
  totalHigh,      \* field-wise maximum of the latest total over the saved runs
  recorded,       \* per entity: the counters the last saved run recorded,
                  \* the field-wise maximum over the consecutive saved runs
                  \* that listed it, and the number of those runs
  gateLog,        \* main: what the safety check printed: checked, skipped, none
  cIn, cEnc, cAll, cOne, cPc,  \* the codec driver
  rIn, rNow, rOut, rAgain, rPc,  \* the retention driver
  rLater,         \* retention driver: a later value of Date.now()
  rThen,          \* retention driver: the policy at rLater on its output at rNow
  rDirect,        \* retention driver: the policy at rLater on the input
  fTier,          \* refreshImageStats: the tier
  fImages,        \* refreshImageStats: the images array, stats updated in place
  fBulk,          \* the stats of the images as the bulk listing gave them
  fList,          \* refreshImageStats: refreshList, as indices into images
  fPos,           \* refreshImageStats: i, the start of the current batch
  fInFlight,      \* indices of the images whose refetch is in flight
  fResults,       \* results of the completed refetches of the batch, by index
  fPc,            \* where refreshImageStats is: idle, batch, waiting, returned
  fAnswers,       \* what the refetch of each image returned, by image
  fOutOfOrder,    \* whether a refetch completed before one started ahead of it
  pData,          \* stats page: statsData.totalSnapshots
  pRange,         \* stats page: currentTimeRange
  pNow,           \* stats page: Date.now()
  pChart,         \* stats page: the snapshots of the chart
  pPc,            \* stats page: store (no data yet), shown
  wRetries,       \* fetchWithRetry: retries
  wAttempt,       \* fetchWithRetry: attempt
  wBackoff,       \* fetchWithRetry: backoff
  wLog,           \* the responses to the requests made so far
  wSlept,         \* the time spent in sleep so far
  wPc,            \* fetchWithRetry: loop, returned, thrown
  wResult         \* what fetchWithRetry returned: body or undefined

runVars == <<gistFile, gist, clock, runs, pc, exitCode, outcome, apiImages,
             existingData, snapshotsBefore, load, loadedImages, loadedTotals, steps,
             merge, saveCalls, startGist, totalHigh, recorded, gateLog>>
codecVars == <<cIn, cEnc, cAll, cOne, cPc>>
retVars == <<rIn, rNow, rOut, rAgain, rPc, rLater, rThen, rDirect>>
refreshVars == <<fTier, fImages, fBulk, fList, fPos, fInFlight, fResults, fPc,
                 fAnswers, fOutOfOrder>>
pageVars == <<pData, pRange, pNow, pChart, pPc>>
retryVars == <<wRetries, wAttempt, wBackoff, wLog, wSlept, wPc, wResult>>
driverVars == <<codecVars, retVars, refreshVars, pageVars, retryVars>>
vars == <<runVars, driverVars>>

NoLoad == [fault |-> "none", file |-> "missing", kind |-> "none"]
NoMerge == [images |-> <<>>, totalSnapshot |-> <<>>, counters |-> <<>>, clamped |-> {}]

\* the ascending sequence of the elements of a set of integers
RECURSIVE SeqOfSet(_)
SeqOfSet(S) ==
  IF S = {} THEN <<>>
  ELSE LET m == CHOOSE x \in S : \A y \in S : x <= y
       IN  <<m>> \o SeqOfSet(S \ {m})

\* the counters the upstream returns for image e: any of three vectors for the
\* first image, one vector for the others, which come and go
FreshCounters(e) ==
  IF e = 1
  THEN {ZeroCounters,
        [likes |-> 1, hearts |-> 0, laughs |-> 1, cries |-> 0, comments |-> 1],
        [likes |-> 0, hearts |-> 1, laughs |-> 0, cries |-> 2, comments |-> 1]}
  ELSE {[likes |-> 0, hearts |-> 1, laughs |-> 0, cries |-> 2, comments |-> 1]}

\* the listings the upstream can return: any subset of the entities, each with
\* any of its counters
Listings ==
  UNION {{[i \in 1..Cardinality(S) |->
             [id |-> SeqOfSet(S)[i], stats |-> StatsOf(c[SeqOfSet(S)[i]])]]
          : c \in {d \in [S -> UNION {FreshCounters(e) : e \in S}] :
                     \A e \in S : d[e] \in FreshCounters(e)}}
         : S \in SUBSET Entities}

RunInit ==
  /\ gistFile \in GistFiles \ {"doc"}
  /\ gist = createEmptyStats
  /\ clock = 0
  /\ runs = 0
  /\ pc = "start"
  /\ exitCode = 0
  /\ outcome = "none"
  /\ apiImages = <<>>
  /\ existingData = createEmptyStats
  /\ snapshotsBefore = 0
  /\ load = NoLoad
  /\ loadedImages = <<>>
  /\ loadedTotals = 0
  /\ steps = {}
  /\ merge = NoMerge
  /\ saveCalls = 0
  /\ startGist = <<gistFile, gist>>
  /\ totalHigh = ZeroCounters
  /\ recorded = [e \in Entities |-> [listed |-> FALSE, streak |-> 0,
                                     last |-> ZeroCounters, high |-> ZeroCounters]]
  /\ gateLog = "none"

CodecIdle ==
  /\ cIn = <<>>
  /\ cEnc = <<>>
  /\ cAll = <<>>
  /\ cOne = <<>>
  /\ cPc = "input"

RetentionIdle ==
  /\ rIn = <<>>
  /\ rNow = 0
  /\ rOut = <<>>
  /\ rAgain = <<>>
  /\ rLater = 0
  /\ rThen = <<>>
  /\ rDirect = <<>>
  /\ rPc = "input"

PageIdle ==
  /\ pData = <<>>
  /\ pRange = "1d"
  /\ pNow = 0
  /\ pChart = <<>>
  /\ pPc = "store"

RetryIdle ==
  /\ wRetries = MAX_RETRIES
  /\ wAttempt = 1
  /\ wBackoff = INITIAL_BACKOFF_MS
  /\ wLog = <<>>
  /\ wSlept = 0
  /\ wPc = "loop"
  /\ wResult = "none"

RefreshIdle ==
  /\ fTier = "daily"
  /\ fImages = <<>>
  /\ fBulk = <<>>
  /\ fList = <<>>
  /\ fPos = 0
  /\ fInFlight = {}
  /\ fResults = <<>>
  /\ fAnswers = <<>>
  /\ fOutOfOrder = FALSE
  /\ fPc = "idle"

Init == RunInit /\ CodecIdle /\ RetentionIdle /\ RefreshIdle /\ PageIdle /\ RetryIdle

Exit(code, how) ==
  /\ pc' = "done"
  /\ exitCode' = code
  /\ outcome' = how

\* main, line 754: fetchAllUserImages throws once the retries are exhausted
FetchFails ==
  /\ pc = "start"
  /\ runs < MaxRuns
  /\ runs' = runs + 1
  /\ \E step \in ClockSteps : clock' = clock + step
  /\ Exit(1, "listingFailed")
  /\ UNCHANGED <<gistFile, gist, apiImages, existingData, snapshotsBefore, load,
                 loadedImages, loadedTotals, steps, merge, saveCalls, startGist,
                 totalHigh, recorded, gateLog,
                 driverVars>>

\* main, lines 754-759: the listing is fetched; an empty one ends the run
FetchAllUserImages ==
  /\ pc = "start"
  /\ runs < MaxRuns
  /\ runs' = runs + 1
  /\ \E step \in ClockSteps : clock' = clock + step
  /\ \E listing \in Listings :
       /\ apiImages' = listing
       /\ IF Len(listing) = 0
          THEN Exit(0, "noImages")
          ELSE /\ pc' = "fetched"
               /\ UNCHANGED <<exitCode, outcome>>
  /\ steps' = steps \cup {"fetch"}
  /\ UNCHANGED <<gistFile, gist, existingData, snapshotsBefore, load,
                 loadedImages, loadedTotals, merge, saveCalls, startGist, totalHigh,
                 recorded, gateLog,
                 driverVars>>

\* main, line 762: readGistData returns the document, the empty one, or exits
ReadGist ==
  /\ pc = "fetched"
  /\ \E fault \in Faults :
       LET r == readGistData(fault, gistFile, gist)
       IN  /\ load' = [fault |-> fault, file |-> gistFile, kind |-> r["kind"]]
           /\ IF r["kind"] = "exit"
              THEN /\ Exit(1, "loadFailed")
                   /\ UNCHANGED <<existingData, loadedImages, loadedTotals, steps>>
              ELSE /\ existingData' = r["data"]
                   /\ loadedImages' = r["data"]["images"]
                   /\ loadedTotals' = Len(r["data"]["totalSnapshots"])
                   /\ steps' = steps \cup {"load"}
                   /\ pc' = "loaded"
                   /\ UNCHANGED <<exitCode, outcome>>
  /\ UNCHANGED <<gistFile, gist, clock, runs, apiImages, snapshotsBefore, merge,
                 saveCalls, startGist, totalHigh, recorded, gateLog,
                 driverVars>>

\* main, lines 787-840: processImages, the total snapshot, retention, and the
\* merged fields stored in existingData
Merge ==
  /\ pc = "loaded"
  /\ LET m == processImages(apiImages, existingData["images"], clock)
         pushed == PushTotal(existingData["totalSnapshots"], m["totalSnapshot"])
     IN  /\ merge' = m
         /\ snapshotsBefore' = Len(pushed)
         /\ existingData' = [lastUpdated |-> m["totalSnapshot"]["timestamp"],
                             totalSnapshots |-> RetainTotal(pushed, clock),
                             images |-> m["images"]]
  /\ pc' = "merged"
  /\ steps' = steps \cup {"merge"}
  /\ UNCHANGED <<gistFile, gist, clock, runs, exitCode, outcome, apiImages, load,
                 loadedImages, loadedTotals, saveCalls, startGist, totalHigh,
                 recorded, gateLog,
                 driverVars>>

\* main, lines 842-879: the safety check
IntegrityGate ==
  /\ pc = "merged"
  /\ gateLog' = IF GateEvaluated(snapshotsBefore) THEN "checked" ELSE "skipped"
  /\ IF GateAborts(snapshotsBefore, existingData["images"])
     THEN /\ Exit(1, "gateAbort")
          /\ UNCHANGED steps
     ELSE /\ pc' = "gated"
          /\ steps' = steps \cup {"gate"}
          /\ UNCHANGED <<exitCode, outcome>>
  /\ UNCHANGED <<gistFile, gist, clock, runs, apiImages, existingData,
                 snapshotsBefore, load, loadedImages, loadedTotals, merge, saveCalls,
                 startGist, totalHigh, recorded, driverVars>>

\* the counters of the latest resolved total snapshot of a document
LatestTotal(doc) == LastKnown(LastSnapshot(doc["totalSnapshots"]))

CanUpdateGistBeforeGate == pc \in {"merged", "gated"}

\* main, line 882: updateGist is reached
CanUpdateGist == pc = "gated"

\* the counters of entity e in this run's merge, as a sequence of 0 or 1 vectors
CountersFor(e) ==
  LET at == {i \in 1..Len(apiImages) : apiImages[i]["id"] = e}
  IN  IF at = {} THEN <<>> ELSE <<merge["counters"][CHOOSE i \in at : TRUE]>>

\* updateGist succeeds: the stored document is replaced
UpdateGist ==
  /\ CanUpdateGist
  /\ saveCalls' = saveCalls + 1
  /\ gistFile' = "doc"
  /\ gist' = existingData
  /\ Exit(0, "saved")
  /\ LET latest == LatestTotal(existingData)
     IN  totalHigh' = ForFields(LAMBDA f : MaxOf(totalHigh[f], latest[f]))
  /\ recorded' = [e \in Entities |->
       LET c == CountersFor(e)
       IN  IF Len(c) = 0
           THEN [listed |-> FALSE, streak |-> 0, last |-> ZeroCounters,
                 high |-> ZeroCounters]
           ELSE [listed |-> TRUE, streak |-> recorded[e]["streak"] + 1, last |-> c[1],
                 high |-> IF recorded[e]["listed"]
                          THEN ForFields(LAMBDA f :
                                  MaxOf(recorded[e]["high"][f], c[1][f]))
                          ELSE c[1]]]
  /\ UNCHANGED <<clock, runs, apiImages, existingData, snapshotsBefore, load,
                 loadedImages, loadedTotals, steps, merge, startGist, gateLog,
                 driverVars>>

UpdateGistFailsSwallowed ==
  /\ CanUpdateGist
  /\ saveCalls' = saveCalls + 1
  /\ Exit(0, "saveFailed")
  /\ UNCHANGED <<gistFile, gist, clock, runs, apiImages, existingData,
                 snapshotsBefore, load, loadedImages, loadedTotals, steps, merge,
                 startGist, totalHigh, recorded, gateLog,
                 driverVars>>

\* updateGist throws: octokit.gists.update failed and nothing was stored
UpdateGistFails ==
  /\ CanUpdateGist
  /\ saveCalls' = saveCalls + 1
  /\ Exit(1, "saveFailed")
  /\ UNCHANGED <<gistFile, gist, clock, runs, apiImages, existingData,
                 snapshotsBefore, load, loadedImages, loadedTotals, steps, merge,
                 startGist, totalHigh, recorded, gateLog,
                 driverVars>>

\* the scheduler starts the next run: a new process
NextRun ==
  /\ pc = "done"
  /\ runs < MaxRuns
  /\ pc' = "start"
  /\ exitCode' = 0
  /\ outcome' = "none"
  /\ apiImages' = <<>>
  /\ existingData' = createEmptyStats
  /\ snapshotsBefore' = 0
  /\ load' = NoLoad
  /\ loadedImages' = <<>>
  /\ loadedTotals' = 0
  /\ steps' = {}
  /\ merge' = NoMerge
  /\ saveCalls' = 0
  /\ gateLog' = "none"
  /\ startGist' = <<gistFile, gist>>
  /\ UNCHANGED <<gistFile, gist, clock, runs, totalHigh, recorded, driverVars>>

Next ==
  \/ FetchFails
  \/ FetchAllUserImages
  \/ ReadGist
  \/ Merge
  \/ IntegrityGate
  \/ UpdateGist
  \/ UpdateGistFails
  \/ NextRun

Spec == Init /\ [][Next]_vars

\* -------------------------------------------------- stored document driver
\* One run of main() on a stored document that holds any mix of absolute and
\* delta entries, as documents written before the delta encoding or edited by
\* hand do.

\* the time of the last write of the stored document
StoredClock == 1000 * TicksPerHour

\* stored entries, without their timestamp
StoredEntries ==
  {[ZeroCounters EXCEPT !["likes"] = 1],
   [likes |-> 1, hearts |-> 0, laughs |-> 1, cries |-> 0, comments |-> 1],
   [dl |-> 1], [_d |-> 1]}

\* histories of n entries, one hour apart, the last one written at StoredClock
RECURSIVE StoredHistories(_)
StoredHistories(n) ==
  IF n = 0 THEN {<<>>}
  ELSE {Append([i \in 1..(n - 1) |->
                  [h[i] EXCEPT !["timestamp"] = h[i]["timestamp"] - TicksPerHour]],
               e @@ [timestamp |-> StoredClock])
        : h \in StoredHistories(n - 1), e \in StoredEntries}

\* a document that tracks image 1 with history h and holds h as its totals
StoredDocument(h) ==
  [lastUpdated |-> StoredClock,
   totalSnapshots |-> [i \in 1..Len(h) |-> h[i] @@ [imageCount |-> 1]],
   images |-> <<[id |-> String(1), snapshots |-> h]>>]

StoredInit ==
  /\ gistFile = "doc"
  /\ gist \in {StoredDocument(h) : h \in UNION {StoredHistories(n) : n \in 0..MaxLen}}
  /\ clock = StoredClock
  /\ runs = 0
  /\ pc = "start"
  /\ exitCode = 0
  /\ outcome = "none"
  /\ apiImages = <<>>
  /\ existingData = createEmptyStats
  /\ snapshotsBefore = 0
  /\ load = NoLoad
  /\ loadedImages = <<>>
  /\ loadedTotals = 0
  /\ steps = {}
  /\ merge = NoMerge
  /\ saveCalls = 0
  /\ startGist = <<gistFile, gist>>
  /\ totalHigh = ZeroCounters
  /\ recorded = [e \in Entities |-> [listed |-> FALSE, streak |-> 0,
                                     last |-> ZeroCounters, high |-> ZeroCounters]]
  /\ gateLog = "none"
  /\ CodecIdle
  /\ RetentionIdle
  /\ RefreshIdle
  /\ RetryIdle
  /\ PageIdle

\* the steps of one run of main()
StoredNext ==
  \/ FetchFails
  \/ FetchAllUserImages
  \/ ReadGist
  \/ Merge
  \/ IntegrityGate
  \/ UpdateGist
  \/ UpdateGistFails

SpecStored == StoredInit /\ [][StoredNext]_vars

\* ----------------------------------------------------------- codec driver
\* The codec as functions of their input: a sequence is built entry by entry,
\* then encoded and decoded (when all its entries are absolute), or resolved
\* both ways.

CodecCounters ==
  SmallCounters(1)
  \cup {[likes |-> 1, hearts |-> 2, laughs |-> 3, cries |-> 4, comments |-> 5]}

\* delta objects: one d* key of +1 or -1, the marker alone, a d* key of 0, two keys
CodecDeltas ==
  {[k \in {DeltaKeyOf(f)} |-> v] : f \in FieldNames, v \in {-1, 1}}
  \cup {[_d |-> 1], [dl |-> 0], [dh |-> 2, dc |-> -1]}

CodecInit ==
  /\ RunInit
  /\ gistFile = "missing"
  /\ CodecIdle
  /\ RetentionIdle
  /\ RefreshIdle
  /\ RetryIdle
  /\ PageIdle

CodecAppendAbsolute ==
  /\ cPc = "input"
  /\ Len(cIn) < MaxLen
  /\ \E c \in CodecCounters :
       cIn' = Append(cIn, c @@ [timestamp |-> Len(cIn) + 1])
  /\ UNCHANGED <<cEnc, cAll, cOne, cPc, runVars, retVars, refreshVars, pageVars, retryVars>>

CodecAppendDelta ==
  /\ cPc = "input"
  /\ Len(cIn) < MaxLen
  /\ \E d \in CodecDeltas :
       cIn' = Append(cIn, d @@ [timestamp |-> Len(cIn) + 1])
  /\ UNCHANGED <<cEnc, cAll, cOne, cPc, runVars, retVars, refreshVars, pageVars, retryVars>>

CodecEncode ==
  /\ cPc = "input"
  /\ \A i \in 1..Len(cIn) : DOMAIN cIn[i] = FieldNames \cup {"timestamp"}
  /\ cEnc' = encodeAsDeltas(cIn)
  /\ cPc' = "encoded"
  /\ UNCHANGED <<cIn, cAll, cOne, runVars, retVars, refreshVars, pageVars, retryVars>>

CodecDecode ==
  /\ cPc = "encoded"
  /\ cAll' = resolveAllSnapshots(cEnc)
  /\ cPc' = "decoded"
  /\ UNCHANGED <<cIn, cEnc, cOne, runVars, retVars, refreshVars, pageVars, retryVars>>

RECURSIVE ResolveEach(_, _)
ResolveEach(snapshots, i) ==
  IF i > Len(snapshots) THEN <<>>
  ELSE <<resolveSnapshot(snapshots, i)>> \o ResolveEach(snapshots, i + 1)

CodecResolve ==
  /\ cPc = "input"
  /\ cAll' = resolveAllSnapshots(cIn)
  /\ cOne' = ResolveEach(cIn, 1)
  /\ cPc' = "resolved"
  /\ UNCHANGED <<cIn, cEnc, runVars, retVars, refreshVars, pageVars, retryVars>>

CodecNext ==
  \/ CodecAppendAbsolute
  \/ CodecAppendDelta
  \/ CodecEncode
  \/ CodecDecode
  \/ CodecResolve

SpecCodec == CodecInit /\ [][CodecNext]_vars

\* ------------------------------------------------------- retention driver
\* applyRetentionPolicy as a function of its input: a chronologically sorted
\* sequence of absolute snapshots is built entry by entry for a value of now,
\* the policy is applied to it, and applied again to its own output.

\* ages, in hours, on both sides of the two thresholds and of bucket borders
RetentionAges ==
  {0, 5, 167, 168, 169, 173, 175, 719, 720, 721, 730, 745, 950}

\* values of Date.now(): three alignments of the thresholds with the buckets
RetentionNows ==
  {960 * TicksPerHour, 963 * TicksPerHour, 973 * TicksPerHour}

RetentionInit ==
  /\ RunInit
  /\ gistFile = "missing"
  /\ CodecIdle
  /\ RefreshIdle
  /\ RetryIdle
  /\ PageIdle
  /\ rIn = <<>>
  /\ rNow \in RetentionNows
  /\ rOut = <<>>
  /\ rAgain = <<>>
  /\ rLater = 0
  /\ rThen = <<>>
  /\ rDirect = <<>>
  /\ rPc = "input"

\* one more snapshot, not older than the last one; its likes tell it apart
RetentionAppend ==
  /\ rPc = "input"
  /\ Len(rIn) < MaxSnaps
  /\ \E age \in RetentionAges :
       LET timestamp == rNow - age * TicksPerHour
       IN  /\ Len(rIn) > 0 => rIn[Len(rIn)]["timestamp"] <= timestamp
           /\ rIn' = Append(rIn, [ZeroCounters EXCEPT !["likes"] = Len(rIn) + 1]
                                 @@ [timestamp |-> timestamp])
  /\ UNCHANGED <<rNow, rOut, rAgain, rPc, rLater, rThen, rDirect,
                 runVars, codecVars, refreshVars, pageVars, retryVars>>

RetentionApply ==
  /\ rPc = "input"
  /\ rOut' = applyRetentionPolicy(rIn, rNow)
  /\ rPc' = "applied"
  /\ UNCHANGED <<rIn, rNow, rAgain, rLater, rThen, rDirect,
                 runVars, codecVars, refreshVars, pageVars, retryVars>>

RetentionReapply ==
  /\ rPc = "applied"
  /\ rAgain' = applyRetentionPolicy(rOut, rNow)
  /\ rPc' = "reapplied"
  /\ UNCHANGED <<rIn, rNow, rOut, rLater, rThen, rDirect,
                 runVars, codecVars, refreshVars, pageVars, retryVars>>

\* hours from one application of the policy to a later one
RetentionGaps == {1, 6, 13, 24 * 16}

\* the policy at a later time, on the output of the first application and on
\* the input itself
RetentionLater ==
  /\ rPc = "applied"
  /\ \E gap \in RetentionGaps :
       /\ rLater' = rNow + gap * TicksPerHour
       /\ rThen' = applyRetentionPolicy(rOut, rLater')
       /\ rDirect' = applyRetentionPolicy(rIn, rLater')
  /\ rPc' = "later"
  /\ UNCHANGED <<rIn, rNow, rOut, rAgain, runVars, codecVars, refreshVars, pageVars, retryVars>>

RetentionNext ==
  \/ RetentionAppend
  \/ RetentionApply
  \/ RetentionReapply
  \/ RetentionLater

SpecRetention == RetentionInit /\ [][RetentionNext]_vars

\* ---------------------------------------------------------- hourly driver
\* applyRetentionPolicy on the history that hourly runs record: one snapshot
\* per hour up to now, the first one a number of days before now; now takes
\* every hour of a day, so that the thresholds fall on and between the
\* borders of the 6-hour and 24-hour buckets.

\* spans of the history, in days
HourlySpans == {1, 8, 31, 40}

\* values of Date.now()
HourlyNows == {(40 * 24 + h) * TicksPerHour : h \in 0..23}

\* one snapshot per hour from now - hours to now; its likes tell it apart
HourlyHistory(now, hours) ==
  [i \in 1..(hours + 1) |->
     [ZeroCounters EXCEPT !["likes"] = i]
       @@ [timestamp |-> now - (hours + 1 - i) * TicksPerHour]]

HourlyInit ==
  /\ RunInit
  /\ gistFile = "missing"
  /\ CodecIdle
  /\ RefreshIdle
  /\ RetryIdle
  /\ PageIdle
  /\ rNow \in HourlyNows
  /\ rIn \in {HourlyHistory(rNow, days * 24) : days \in HourlySpans}
  /\ rOut = <<>>
  /\ rAgain = <<>>
  /\ rLater = 0
  /\ rThen = <<>>
  /\ rDirect = <<>>
  /\ rPc = "input"

HourlyNext ==
  \/ RetentionApply
  \/ RetentionReapply

SpecHourly == HourlyInit /\ [][HourlyNext]_vars

\* ------------------------------------------------------ stats page driver
\* The overview chart of the stats page: a stored history is built entry by
\* entry, the page loads it and renders the chart for the initial range, and
\* each click on a range button renders the chart again.

\* stored entries: absolute snapshots and delta entries
PageEntries ==
  {[ZeroCounters EXCEPT !["likes"] = 2],
   [likes |-> 1, hearts |-> 2, laughs |-> 3, cries |-> 4, comments |-> 5],
   [dl |-> 1], [dh |-> 2, dc |-> -1], [_d |-> 1]}

\* ages of the stored entries, in days, on both sides of every threshold
PageAges == {0, 2, 8, 31, 91, 366}

PageNows == {400 * 24 * TicksPerHour}

PageInit ==
  /\ RunInit
  /\ gistFile = "missing"
  /\ CodecIdle
  /\ RetentionIdle
  /\ RefreshIdle
  /\ RetryIdle
  /\ pData = <<>>
  /\ pRange = "1d"
  /\ pNow \in PageNows
  /\ pChart = <<>>
  /\ pPc = "store"

\* one more entry in the stored history, later than the last one
PageStore ==
  /\ pPc = "store"
  /\ Len(pData) < MaxLen
  /\ \E e \in PageEntries, age \in PageAges :
       LET timestamp == pNow - age * 24 * TicksPerHour
       IN  /\ Len(pData) > 0 => pData[Len(pData)]["timestamp"] < timestamp
           /\ pData' = Append(pData, e @@ [timestamp |-> timestamp])
  /\ UNCHANGED <<pRange, pNow, pChart, pPc, runVars, codecVars, retVars, refreshVars, retryVars>>

\* loadData: the document is fetched and the chart rendered
PageLoadData ==
  /\ pPc = "store"
  /\ pChart' = getChartData(pData, pRange, pNow)
  /\ pPc' = "shown"
  /\ UNCHANGED <<pData, pRange, pNow, runVars, codecVars, retVars, refreshVars, retryVars>>

\* the click handler of a time range button
PageSelectRange ==
  /\ pPc = "shown"
  /\ \E range \in TimeRanges :
       /\ pRange' = range
       /\ pChart' = getChartData(pData, range, pNow)
  /\ UNCHANGED <<pData, pNow, pPc, runVars, codecVars, retVars, refreshVars, retryVars>>

PageNext ==
  \/ PageStore
  \/ PageLoadData
  \/ PageSelectRange

SpecPage == PageInit /\ [][PageNext]_vars

\* ----------------------------------------------------------- retry driver
\* fetchWithRetry(url, retries, backoff): one action per iteration of its
\* loop, for each response the request of the iteration can get.

\* responses: a parsed body, 429 without and with a Retry-After header (in
\* seconds), another status that is not ok, fetch() rejecting, and an ok
\* response whose json() rejects
RetryResponses ==
  {[kind |-> "ok"], [kind |-> "rateLimited", retryAfter |-> 0],
   [kind |-> "rateLimited", retryAfter |-> 5], [kind |-> "httpError"],
   [kind |-> "networkError"], [kind |-> "badBody"]}

RetryInit ==
  /\ RunInit
  /\ gistFile = "missing"
  /\ CodecIdle
  /\ RetentionIdle
  /\ RefreshIdle
  /\ PageIdle
  /\ wRetries \in 1..MAX_RETRIES
  /\ wAttempt = 1
  /\ wBackoff = INITIAL_BACKOFF_MS
  /\ wLog = <<>>
  /\ wSlept = 0
  /\ wPc = "loop"
  /\ wResult = "none"

\* lines 49-62: the response is ok and its body parses
RetryOk ==
  /\ wPc = "loop"
  /\ wLog' = Append(wLog, [kind |-> "ok"])
  /\ wPc' = "returned"
  /\ wResult' = "body"
  /\ UNCHANGED <<wRetries, wAttempt, wBackoff, wSlept, runVars, codecVars, retVars,
                 refreshVars, pageVars>>

\* lines 49-57: status 429; sleep, double the backoff, continue; when this was
\* the last attempt the loop ends and the function returns nothing
RetryRateLimited ==
  /\ wPc = "loop"
  /\ \E response \in {r \in RetryResponses : r["kind"] = "rateLimited"} :
       /\ wLog' = Append(wLog, response)
       /\ wSlept' = wSlept + (IF response["retryAfter"] # 0
                              THEN response["retryAfter"] * 1000 ELSE wBackoff)
  /\ wBackoff' = wBackoff * 2
  /\ wAttempt' = wAttempt + 1
  /\ IF wAttempt' <= wRetries
     THEN UNCHANGED <<wPc, wResult>>
     ELSE /\ wPc' = "returned"
          /\ wResult' = "undefined"
  /\ UNCHANGED <<wRetries, runVars, codecVars, retVars, refreshVars, pageVars>>

\* lines 59-72: the request or the parsing of the body throws; the last
\* attempt rethrows, an earlier one sleeps and doubles the backoff
RetryError ==
  /\ wPc = "loop"
  /\ \E response \in {r \in RetryResponses :
                        r["kind"] \in {"httpError", "networkError", "badBody"}} :
       wLog' = Append(wLog, response)
  /\ IF wAttempt = wRetries
     THEN /\ wPc' = "thrown"
          /\ UNCHANGED <<wAttempt, wBackoff, wSlept, wResult>>
     ELSE /\ wSlept' = wSlept + wBackoff
          /\ wBackoff' = wBackoff * 2
          /\ wAttempt' = wAttempt + 1
          /\ UNCHANGED <<wPc, wResult>>
  /\ UNCHANGED <<wRetries, runVars, codecVars, retVars, refreshVars, pageVars>>

RetryNext ==
  \/ RetryOk
  \/ RetryRateLimited
  \/ RetryError

SpecRetry == RetryInit /\ [][RetryNext]_vars

\* --------------------------------------------------------- refresh driver
\* refreshImageStats on a bulk listing: the tier, the images to refetch, the
\* batches of concurrent refetches, each completing in any order with any
\* response, and the stats merged after each batch.  The run then goes on as in
\* Spec, from the listing the refresh returned.  Days count the time here.

\* new Date() in refreshImageStats, in days
RefreshNow == 400

\* getRefreshTier: the override when set and not 'auto', else by the date
\* (month is 0-indexed)
getRefreshTier(override, dayOfMonth, month) ==
  IF override # "" /\ override # "auto" THEN override
  ELSE IF dayOfMonth = 1 /\ month % 3 = 0 THEN "quarterly"
  ELSE IF dayOfMonth = 1 THEN "monthly"
  ELSE "daily"

\* total of lines 140-141: the four reactions, comments not counted
ReactionTotal(stats) ==
  Get(stats, "likeCount") + Get(stats, "heartCount")
  + Get(stats, "laughCount") + Get(stats, "cryCount")

SelectedNoZeroRule(tier, img, now) ==
  \/ img["createdAt"] >= now - 30
  \/ tier \in {"monthly", "quarterly"} /\ img["createdAt"] >= now - 180
  \/ tier = "quarterly"

\* lines 139-160: whether img is added to toRefresh
Selected(tier, img, now) ==
  \/ ReactionTotal(img["stats"]) = 0
  \/ img["createdAt"] >= now - 30
  \/ tier \in {"monthly", "quarterly"} /\ img["createdAt"] >= now - 180
  \/ tier = "quarterly"

\* refreshList, as the indices of its images in images, from index i on
RECURSIVE RefreshListFrom(_, _, _, _)
RefreshListFrom(tier, images, now, i) ==
  IF i > Len(images) THEN <<>>
  ELSE (IF Selected(tier, images[i], now) THEN <<i>> ELSE <<>>)
       \o RefreshListFrom(tier, images, now, i + 1)

\* fetchImageStats: the stats of the first item, as a sequence of one, or null
\* (the empty sequence) when fetchWithRetry throws, returns no body, no item,
\* or an item without stats
fetchImageStats(response) ==
  IF response["kind"] = "ok" THEN <<response["stats"]>> ELSE <<>>

MergedStatsNullZero(result, bulkStats) ==
  IF Len(result) = 0 THEN StatsOf(ZeroCounters)
  ELSE [k \in {StatKeyOf(f) : f \in FieldNames} |->
          MaxOf(Get(result[1], k), Get(bulkStats, k))]

\* lines 183-199: the stats of an image after its refetch returned result
MergedStats(result, bulkStats) ==
  IF Len(result) = 0 THEN bulkStats
  ELSE [k \in {StatKeyOf(f) : f \in FieldNames} |->
          MaxOf(Get(result[1], k), Get(bulkStats, k))]

\* bulk stats: none, comments only, some reactions
BulkStats ==
  {<<>>,
   StatsOf([likes |-> 0, hearts |-> 0, laughs |-> 0, cries |-> 0, comments |-> 1]),
   StatsOf([likes |-> 1, hearts |-> 0, laughs |-> 1, cries |-> 0, comments |-> 1])}

\* the images the bulk listing can hold at position i: for the first, any of
\* four ages on both sides of the 30-day and 180-day thresholds, with reactions
\* or with comments only; for the second, three of these; for the others a new
\* image without stats
BulkImages(i) ==
  IF i = 1
  THEN {[id |-> i, createdAt |-> RefreshNow - age, stats |-> st] :
          age \in {30, 31, 180, 181}, st \in BulkStats \ {<<>>}}
  ELSE IF i = 2
  THEN {[id |-> i, createdAt |-> RefreshNow - 31,
         stats |-> StatsOf([likes |-> 1, hearts |-> 0, laughs |-> 1, cries |-> 0,
                            comments |-> 1])],
        [id |-> i, createdAt |-> RefreshNow - 181,
         stats |-> StatsOf([likes |-> 1, hearts |-> 0, laughs |-> 1, cries |-> 0,
                            comments |-> 1])],
        [id |-> i, createdAt |-> RefreshNow - 181,
         stats |-> StatsOf([likes |-> 0, hearts |-> 0, laughs |-> 0, cries |-> 0,
                            comments |-> 1])]}
  ELSE {[id |-> i, createdAt |-> RefreshNow, stats |-> <<>>]}

\* the bulk listings of n images
BulkListings(n) ==
  {[i \in 1..n |-> IF i = 1 THEN first
                   ELSE IF i = 2 THEN second
                   ELSE CHOOSE img \in BulkImages(i) : TRUE] :
     first \in BulkImages(1), second \in BulkImages(2)}

\* what the refetch of image i can be answered with: stats, and for the first
\* three images also a failure of each kind; for the first two also stats that
\* lack keys and are lower in one field and higher in another
Responses(i) ==
  {[kind |-> "ok",
    stats |-> StatsOf([likes |-> 2, hearts |-> 0, laughs |-> 1, cries |-> 0,
                       comments |-> 1])]}
  \cup (IF i <= 3
        THEN {[kind |-> k, stats |-> <<>>] :
                k \in {"throws", "noBody", "noItems", "noStats"}}
        ELSE {})
  \cup (IF i <= 2
        THEN {[kind |-> "ok", stats |-> [likeCount |-> 0, heartCount |-> 3]]}
        ELSE {})

RefreshInit ==
  /\ RunInit
  /\ gistFile = "missing"
  /\ CodecIdle
  /\ RetentionIdle
  /\ RefreshIdle
  /\ RetryIdle
  /\ PageIdle

\* the whole rest of refreshList as one batch: slice(i) without its end
BatchWhole == {fList[k] : k \in (fPos + 1)..Len(fList)}

\* the indices of the batch that starts at position fPos of refreshList
Batch == {fList[k] : k \in (fPos + 1)..(IF fPos + STATS_BATCH_SIZE < Len(fList)
                                         THEN fPos + STATS_BATCH_SIZE
                                         ELSE Len(fList))}

\* the results filled in the order in which the refetches complete
ResultSlotByArrival(j) ==
  SeqOfSet(Batch)[Cardinality(Batch) - Cardinality(fInFlight) + 1]

\* where Promise.all puts the result of the refetch of image j: at the
\* position of its promise in the batch, in whatever order they complete
ResultSlot(j) == j

\* fetchAllUserImages calls refreshImageStats, lines 131-169
RefreshStart ==
  /\ pc = "start"
  /\ fPc = "idle"
  /\ runs < MaxRuns
  /\ runs' = runs + 1
  /\ clock' = clock + 1
  /\ \E override \in {"", "auto", "daily", "monthly", "quarterly"},
        dayOfMonth \in {1, 2}, month \in {0, 1, 3} :
       fTier' = getRefreshTier(override, dayOfMonth, month)
  /\ \E n \in 0..MaxImages :
       \E images \in BulkListings(n) :
         /\ fImages' = images
         /\ fBulk' = [i \in 1..n |-> images[i]["stats"]]
  /\ fList' = RefreshListFrom(fTier', fImages', RefreshNow, 1)
  /\ fPos' = 0
  /\ fPc' = IF Len(fList') = 0 THEN "returned" ELSE "batch"
  /\ UNCHANGED <<fInFlight, fResults, fAnswers, fOutOfOrder>>
  /\ UNCHANGED <<gistFile, gist, pc, exitCode, outcome, apiImages, existingData,
                 snapshotsBefore, load, loadedImages, loadedTotals, steps, merge,
                 saveCalls, startGist, totalHigh, recorded, gateLog, codecVars,
                 retVars, pageVars, retryVars>>

\* lines 176-180: the refetches of the batch are started together
RefreshStartBatch ==
  /\ fPc = "batch"
  /\ fInFlight' = Batch
  /\ fPc' = "waiting"
  /\ UNCHANGED <<fTier, fImages, fBulk, fList, fPos, fResults, fAnswers, fOutOfOrder,
                 runVars, codecVars, retVars, pageVars, retryVars>>

\* one refetch in flight completes
RefreshComplete ==
  /\ fPc = "waiting"
  /\ \E j \in fInFlight :
       \E response \in Responses(j) :
         /\ fResults' = fResults @@ (ResultSlot(j) :> fetchImageStats(response))
         /\ fAnswers' = fAnswers @@ (j :> fetchImageStats(response))
         /\ fInFlight' = fInFlight \ {j}
         /\ fOutOfOrder' = (fOutOfOrder \/ \E k \in fInFlight : k < j)
  /\ UNCHANGED <<fTier, fImages, fBulk, fList, fPos, fPc, runVars, codecVars, retVars, pageVars, retryVars>>

\* lines 182-220: Promise.all has resolved; the stats of the batch are merged
RefreshMergeBatch ==
  /\ fPc = "waiting"
  /\ fInFlight = {}
  /\ fImages' = [i \in 1..Len(fImages) |->
                   IF i \in Batch
                   THEN [fImages[i] EXCEPT
                           !["stats"] = MergedStats(fResults[i], fImages[i]["stats"])]
                   ELSE fImages[i]]
  /\ fPos' = fPos + STATS_BATCH_SIZE
  /\ fPc' = IF fPos' < Len(fList) THEN "batch" ELSE "returned"
  /\ UNCHANGED <<fTier, fBulk, fList, fInFlight, fResults, fAnswers, fOutOfOrder,
                 runVars, codecVars, retVars, pageVars, retryVars>>

\* refreshImageStats and fetchAllUserImages return; main, lines 754-759
RefreshReturn ==
  /\ pc = "start"
  /\ fPc = "returned"
  /\ fPc' = "done"
  /\ apiImages' = fImages
  /\ IF Len(fImages) = 0
     THEN Exit(0, "noImages")
     ELSE /\ pc' = "fetched"
          /\ UNCHANGED <<exitCode, outcome>>
  /\ steps' = steps \cup {"fetch"}
  /\ UNCHANGED <<gistFile, gist, clock, runs, existingData, snapshotsBefore, load,
                 loadedImages, loadedTotals, merge, saveCalls, startGist, totalHigh,
                 recorded, gateLog, codecVars, retVars,
                 fTier, fImages, fBulk, fList, fPos, fInFlight, fResults, fAnswers,
                 fOutOfOrder, pageVars, retryVars>>

RefreshNext ==
  \/ RefreshStart
  \/ RefreshStartBatch
  \/ RefreshComplete
  \/ RefreshMergeBatch
  \/ RefreshReturn
  \/ ReadGist
  \/ Merge
  \/ IntegrityGate
  \/ UpdateGist
  \/ UpdateGistFails

SpecRefresh == RefreshInit /\ [][RefreshNext]_vars

\* ------------------------------------------------------------ gate driver
\* The safety check of main() as a function of what reaches it: any merged
\* images array, histories without a snapshot included, after any number of
\* loaded total snapshots.  From there main() goes on as in Spec.

GateHistories ==
  {<<>>,
   <<[likes |-> 1, hearts |-> 0, laughs |-> 0, cries |-> 0, comments |-> 0,
      timestamp |-> 1]>>,
   <<[likes |-> 1, hearts |-> 0, laughs |-> 0, cries |-> 0, comments |-> 0,
      timestamp |-> 1],
     [dl |-> 1, timestamp |-> 2]>>}

GateImages ==
  UNION {{[i \in 1..Cardinality(S) |->
             [id |-> String(SeqOfSet(S)[i]), snapshots |-> h[SeqOfSet(S)[i]]]]
          : h \in [S -> GateHistories]} : S \in SUBSET (Entities \cup {3})}

GateInit ==
  /\ RunInit
  /\ gistFile = "missing"
  /\ CodecIdle
  /\ RetentionIdle
  /\ RefreshIdle
  /\ RetryIdle
  /\ PageIdle

\* main() has reached its safety check
GateArrive ==
  /\ pc = "start"
  /\ runs = 0
  /\ runs' = 1
  /\ pc' = "merged"
  /\ steps' = {"fetch", "load", "merge"}
  /\ \E n \in 0..MaxLen, images \in GateImages :
       /\ loadedTotals' = n
       /\ snapshotsBefore' = n + 1
       /\ existingData' =
            [lastUpdated |-> 1,
             totalSnapshots |->
               [i \in 1..(n + 1) |->
                  IF i = 1
                  THEN ZeroCounters @@ [timestamp |-> 1, imageCount |-> Len(images)]
                  ELSE [_d |-> 1, timestamp |-> i, imageCount |-> Len(images)]],
             images |-> images]
  /\ UNCHANGED <<gistFile, gist, clock, exitCode, outcome, apiImages, load,
                 loadedImages, merge, saveCalls, startGist, totalHigh, recorded,
                 gateLog,
                 driverVars>>

GateNext ==
  \/ GateArrive
  \/ IntegrityGate
  \/ UpdateGist
  \/ UpdateGistFails

SpecGate == GateInit /\ [][GateNext]_vars

\* ----------------------------------------------------------------- claims

\* the ids, as stored, of the images of this run's listing
ListedIds == {String(apiImages[i]["id"]) : i \in 1..Len(apiImages)}

\* C1: in a run that saves, every image of the loaded document that the
\* listing does not hold is in the saved document with the same id and the
\* same snapshots.
C1_AbsentEntitiesCarriedForward ==
  outcome = "saved" =>
    \A i \in 1..Len(loadedImages) :
      loadedImages[i]["id"] \notin ListedIds =>
        \E j \in 1..Len(gist["images"]) : gist["images"][j] = loadedImages[i]

\* C2: every counter of the latest resolved total snapshot of the stored
\* document is at least what it was after every earlier saved run.
C2_TotalNeverDecreases ==
  gistFile = "doc" =>
    \A f \in FieldNames : LatestTotal(gist)[f] >= totalHigh[f]

\* C3: over consecutive saved runs that each list an entity, the corrected
\* counters recorded for it are field-wise at least those of every earlier
\* run of the sequence.
C3_EntityRatchet ==
  \A e \in Entities :
    recorded[e]["listed"] =>
      \A f \in FieldNames : recorded[e]["last"][f] >= recorded[e]["high"][f]

C3_Witness ==
  /\ outcome = "saved"
  /\ recorded[1]["streak"] = MaxRuns
  /\ 1 \in merge["clamped"]
  /\ \E f \in FieldNames : recorded[1]["last"][f] > 0

\* the resolved last snapshot of the loaded history of image id, through
\* resolveAllSnapshots; all-zero without one
LoadedLastKnown(id) ==
  LET all == resolveAllSnapshots(ExistingSnapshots(loadedImages, id))
  IN  IF Len(all) = 0 THEN ZeroCounters ELSE CountersOf(all[Len(all)])

\* C4: once processImages has run, the corrected counters of each listed
\* image are, field by field, the larger of the fresh and the last known
\* value; the clamp line is printed for it exactly when some fresh field is
\* below the last known one; an image without history has all-zero last known
\* counters and no clamp line.
C4_GuardIsFieldwiseMax ==
  "merge" \in steps =>
    \A i \in 1..Len(apiImages) :
      LET id == apiImages[i]["id"]
          fresh == ApiCounters(apiImages[i])
          lastKnown == LoadedLastKnown(id)
          corrected == merge["counters"][i]
      IN  /\ \A f \in FieldNames :
               /\ corrected[f] >= fresh[f]
               /\ corrected[f] >= lastKnown[f]
               /\ corrected[f] \in {fresh[f], lastKnown[f]}
          /\ (id \in merge["clamped"]) <=> (\E f \in FieldNames : fresh[f] < lastKnown[f])
          /\ Len(ExistingSnapshots(loadedImages, id)) = 0 =>
               /\ lastKnown = ZeroCounters
               /\ id \notin merge["clamped"]

C4_Witness ==
  /\ "merge" \in steps
  /\ Len(apiImages) = 2
  /\ 1 \in merge["clamped"]
  /\ \E f \in FieldNames : merge["counters"][1][f] > ApiCounters(apiImages[1])[f]
  /\ \E f \in FieldNames : merge["counters"][1][f] > LoadedLastKnown(1)[f]
  /\ Len(ExistingSnapshots(loadedImages, 2)) = 0
  /\ 2 \notin merge["clamped"]

\* C5: when the loaded document had 2 or more total snapshots and the merged
\* images hold fewer snapshots than there are images, the run ends at the
\* safety check with exit code 1 and updateGist is not called.
C5_GateTrips ==
  (/\ pc \in {"gated", "done"}
   /\ loadedTotals >= 2
   /\ SnapshotCount(existingData["images"]) < Len(existingData["images"]))
  => (/\ pc = "done"
      /\ outcome = "gateAbort"
      /\ exitCode = 1
      /\ saveCalls = 0)

C5_Witness ==
  /\ outcome = "gateAbort"
  /\ loadedTotals >= 2
  /\ Len(existingData["images"]) = 2
  /\ SnapshotCount(existingData["images"]) = 1

\* C6: updateGist is called at most once in a run, and only after the listing
\* fetch, the load, the merge and the safety check have completed; never after
\* the safety check aborted.
C6_SaveOnceAfterGate ==
  /\ saveCalls <= 1
  /\ saveCalls = 1 =>
       /\ steps = {"fetch", "load", "merge", "gate"}
       /\ outcome \in {"saved", "saveFailed"}
  /\ outcome \in {"listingFailed", "noImages", "loadFailed", "gateAbort"} =>
       saveCalls = 0

C6_Witness ==
  /\ saveCalls = 1
  /\ outcome = "saved"
  /\ runs = MaxRuns

LoadFailure ==
  \/ load["fault"] = "request"
  \/ load["fault"] = "raw_url" /\ load["file"] # "missing"
  \/ load["file"] \in {"unparsable", "invalid"}

C9_RoundTrip ==
  cPc = "decoded" =>
    /\ Len(cAll) = Len(cIn)
    /\ \A i \in 1..Len(cIn) : cAll[i] = cIn[i]

C9_Witness ==
  /\ cPc = "decoded"
  /\ Len(cIn) = MaxLen
  /\ CountersOf(cIn[1]) # ZeroCounters
  /\ CountersOf(cIn[2]) = CountersOf(cIn[1])
  /\ "_d" \in DOMAIN cEnc[2]
  /\ CountersOf(cIn[3]) = ZeroCounters

\* C10: for an encoded sequence of any mix of absolute and delta entries,
\* resolveSnapshot at each index gives the entry resolveAllSnapshots gives there.
C10_ResolverEquivalence ==
  cPc = "resolved" =>
    /\ Len(cOne) = Len(cIn)
    /\ Len(cAll) = Len(cIn)
    /\ \A i \in 1..Len(cIn) : cOne[i] = cAll[i]

C10_Witness ==
  /\ cPc = "resolved"
  /\ Len(cIn) = MaxLen
  /\ isDelta(cIn[1])
  /\ ~isDelta(cIn[2])
  /\ CountersOf(cIn[2]) # ZeroCounters
  /\ isDelta(cIn[3])
  /\ CountersOf(cOne[3]) # CountersOf(cIn[2])

\* the total snapshots the run loaded
LoadedTotalSnapshots ==
  IF load["kind"] = "data" THEN startGist[2]["totalSnapshots"] ELSE <<>>

\* the history of listed image i after the conditional push, before retention
PushedSnapshots(i) ==
  LET snapshots == ExistingSnapshots(loadedImages, apiImages[i]["id"])
  IN  PushSnapshot(snapshots, LastSnapshot(snapshots), merge["counters"][i], clock)

\* C11: once the merge has run, every entry after the first of every history
\* it wrote (the pushed total and the pushed image histories, and the total
\* and image histories after retention) is recognised as a delta by isDelta,
\* an entry with no field change included, and the pushed total resolves to
\* the total of this run instead of to zero.
C11_DeltaEntriesMarked ==
  "merge" \in steps =>
    LET pushed == PushTotal(LoadedTotalSnapshots, merge["totalSnapshot"])
        totals == existingData["totalSnapshots"]
        images == existingData["images"]
    IN  /\ \A i \in 2..Len(pushed) : isDelta(pushed[i])
        /\ CountersOf(resolveSnapshot(pushed, Len(pushed)))
             = CountersOf(merge["totalSnapshot"])
        /\ \A i \in 2..Len(totals) : isDelta(totals[i])
        /\ LatestTotal(existingData) = CountersOf(merge["totalSnapshot"])
        /\ \A j \in 1..Len(images) :
             /\ \A i \in 2..Len(PushedSnapshots(j)) : isDelta(PushedSnapshots(j)[i])
             /\ \A i \in 2..Len(images[j]["snapshots"]) :
                  isDelta(images[j]["snapshots"][i])

C11_Witness ==
  /\ outcome = "saved"
  /\ Len(gist["totalSnapshots"]) = 3
  /\ "_d" \in DOMAIN gist["totalSnapshots"][2]
  /\ DOMAIN gist["totalSnapshots"][2] = {"timestamp", "imageCount", "_d"}
  /\ "dh" \in DOMAIN gist["totalSnapshots"][3]
  /\ LatestTotal(gist)["likes"] > 0
  /\ \E j \in 1..Len(gist["images"]) : Len(gist["images"][j]["snapshots"]) = 2

\* C12: for a sorted input and a value of now, the retention policy applied to
\* its own output gives that output again.
C12_RetentionIdempotent ==
  rPc = "reapplied" => rAgain = rOut

C12_Witness ==
  /\ rPc = "reapplied"
  /\ Len(rIn) = MaxSnaps
  /\ Len(rOut) = 2
  /\ rOut[1]["timestamp"] < rNow - SIX_HOUR_RETENTION_DAYS * 24 * TicksPerHour
  /\ rOut[2]["timestamp"] < rNow - HOURLY_RETENTION_DAYS * 24 * TicksPerHour
  /\ rOut[2]["timestamp"] >= rNow - SIX_HOUR_RETENTION_DAYS * 24 * TicksPerHour

\* the tier of a timestamp: 0 for the last 7 days (timestamp at or after the
\* 7-day threshold), 6 for the 6-hour tier (before it, at or after the 30-day
\* threshold), 24 for the daily tier
TierOf(timestamp) ==
  IF timestamp >= rNow - HOURLY_RETENTION_DAYS * 24 * TicksPerHour THEN 0
  ELSE IF timestamp >= rNow - SIX_HOUR_RETENTION_DAYS * 24 * TicksPerHour THEN 6
  ELSE 24

\* whether input entries i and j fall in the same tier and the same bucket of it
SameBucket(i, j) ==
  LET tier == TierOf(rIn[i]["timestamp"])
  IN  /\ TierOf(rIn[j]["timestamp"]) = tier
      /\ tier # 0
      /\ rIn[i]["timestamp"] \div (tier * TicksPerHour)
           = rIn[j]["timestamp"] \div (tier * TicksPerHour)

\* the input entries that the output holds, by index
KeptIndices == {i \in 1..Len(rIn) : \E k \in 1..Len(rOut) : rOut[k] = rIn[i]}

OldHistory(i) == ExistingSnapshots(loadedImages, apiImages[i]["id"])
NewHistory(i) == existingData["images"][i]["snapshots"]

\* listed image i has a history and its fresh counters are its last known ones
FreshIsLastKnown(i) ==
  /\ Len(OldHistory(i)) > 0
  /\ ApiCounters(apiImages[i]) = LoadedLastKnown(apiImages[i]["id"])

\* C14 as stated: when the fresh counters of an entity are identical to its
\* last known absolute snapshot, the run leaves the length of its history
\* unchanged.
C14_NoOpLeavesHistoryLength ==
  "merge" \in steps =>
    \A i \in 1..Len(apiImages) :
      FreshIsLastKnown(i) => Len(NewHistory(i)) = Len(OldHistory(i))

\* C14 amended: when the fresh counters of an entity are identical to its last
\* known absolute snapshot, the run pushes no entry to its history: every
\* resolved snapshot of the new history is one of the old history, the latest
\* resolved snapshot keeps its timestamp and counters, and the history does not
\* grow (retention may collapse older entries).
C14_NoOpAppendsNothing ==
  "merge" \in steps =>
    \A i \in 1..Len(apiImages) :
      FreshIsLastKnown(i) =>
        LET old == resolveAllSnapshots(OldHistory(i))
            new == resolveAllSnapshots(NewHistory(i))
        IN  /\ PushedSnapshots(i) = OldHistory(i)
            /\ Len(new) <= Len(old)
            /\ Len(new) > 0
            /\ new[Len(new)] = old[Len(old)]
            /\ \A k \in 1..Len(new) : \E m \in 1..Len(old) : new[k] = old[m]

C14_Witness ==
  /\ "merge" \in steps
  /\ \E i \in 1..Len(apiImages) :
       /\ FreshIsLastKnown(i)
       /\ ApiCounters(apiImages[i]) # ZeroCounters
       /\ Len(OldHistory(i)) = 2
       /\ Len(NewHistory(i)) = 1

\* the loaded total resolves, at its end, to the counters and the image count
\* that this run computed
TotalIsLastKnown ==
  /\ Len(LoadedTotalSnapshots) > 0
  /\ CountersOf(resolveSnapshot(LoadedTotalSnapshots, Len(LoadedTotalSnapshots)))
       = CountersOf(merge["totalSnapshot"])
  /\ Get(LoadedTotalSnapshots[Len(LoadedTotalSnapshots)], "imageCount")
       = merge["totalSnapshot"]["imageCount"]

C16_ChangeAppendsOneDelta ==
  "merge" \in steps =>
    \A i \in 1..Len(apiImages) :
      LET corrected == merge["counters"][i]
          lastKnown == LoadedLastKnown(apiImages[i]["id"])
          changed == {f \in FieldNames : corrected[f] # lastKnown[f]}
          new == NewHistory(i)
          old == resolveAllSnapshots(OldHistory(i))
          resolved == resolveAllSnapshots(new)
      IN  (Len(OldHistory(i)) > 0 /\ changed # {}) =>
            /\ Len(PushedSnapshots(i)) = Len(OldHistory(i)) + 1
            /\ SubSeq(PushedSnapshots(i), 1, Len(OldHistory(i))) = OldHistory(i)
            /\ Len(new) >= 2
            /\ Len(new) <= Len(OldHistory(i)) + 1
            /\ new[Len(new)]["timestamp"] = clock
            /\ DOMAIN new[Len(new)] = {"timestamp"} \cup {DeltaKeyOf(f) : f \in changed}
            /\ \A f \in changed :
                 new[Len(new)][DeltaKeyOf(f)] = corrected[f] - lastKnown[f]
            /\ CountersOf(resolved[Len(new)]) = corrected
            /\ resolved[Len(new) - 1] = old[Len(old)]

C16_Witness ==
  /\ outcome = "saved"
  /\ \E i \in 1..Len(apiImages) :
       /\ Len(OldHistory(i)) = 2
       /\ Len(NewHistory(i)) = 2
       /\ 1 \in merge["clamped"]
       /\ DOMAIN NewHistory(i)[2] = {"timestamp", "dh", "dc"}
       /\ NewHistory(i)[2]["dc"] = 2

\* the resolved last snapshot of each image of a document, as counters
LastCountersOf(doc) ==
  [j \in 1..Len(doc["images"]) |-> LastKnown(LastSnapshot(doc["images"][j]["snapshots"]))]

\* C17: in the stored document the latest resolved total snapshot is the
\* field-wise sum of the resolved last snapshots of its images, and its
\* imageCount is the number of its images.
C17_TotalIsSumOfEntities ==
  gistFile = "doc" =>
    LET totals == gist["totalSnapshots"]
    IN  /\ Len(totals) > 0
        /\ LatestTotal(gist) = ForFields(LAMBDA f : SumOver(LastCountersOf(gist), f))
        /\ Get(totals[Len(totals)], "imageCount") = Len(gist["images"])
        /\ "imageCount" \in DOMAIN totals[Len(totals)]

C17_Witness ==
  /\ outcome = "saved"
  /\ runs = MaxRuns
  /\ Len(gist["images"]) = 2
  /\ 1 \in merge["clamped"]
  /\ Len(gist["images"][1]["snapshots"]) = 2
  /\ LatestTotal(gist)["cries"] = 4
  /\ Len(gist["totalSnapshots"]) = 3

\* the images whose batch has been merged, by index
Refreshed ==
  {fList[k] : k \in 1..(IF fPos < Len(fList) THEN fPos ELSE Len(fList))}

\* C18: an image whose refetch failed or returned no stats keeps the stats of
\* the bulk listing, while every other image of its batch has, field by field,
\* the larger of its refetched and its bulk value; images not refetched keep
\* their bulk stats; the run then merges the counters the refresh returned and
\* what it saves holds every image of the listing with these counters.
C18_RefetchFailureFallsBack ==
  /\ Len(fImages) = Len(fBulk)
  /\ \A i \in 1..Len(fImages) :
       IF i \in Refreshed /\ Len(fResults[i]) > 0
       THEN \A f \in FieldNames :
              Get(fImages[i]["stats"], StatKeyOf(f))
                = MaxOf(Get(fResults[i][1], StatKeyOf(f)), Get(fBulk[i], StatKeyOf(f)))
       ELSE fImages[i]["stats"] = fBulk[i]
  /\ "merge" \in steps =>
       /\ Len(merge["counters"]) = Len(fImages)
       /\ \A i \in 1..Len(fImages) : merge["counters"][i] = ApiCounters(fImages[i])
  /\ outcome = "saved" =>
       /\ Len(gist["images"]) = Len(fImages)
       /\ \A i \in 1..Len(fImages) :
            /\ gist["images"][i]["id"] = String(fImages[i]["id"])
            /\ LastKnown(LastSnapshot(gist["images"][i]["snapshots"]))
                 = ApiCounters(fImages[i])
  /\ pc = "done" => outcome \in {"saved", "noImages", "loadFailed", "saveFailed"}

C18_Witness ==
  /\ outcome = "saved"
  /\ Len(fImages) = 3
  /\ Refreshed = {1, 2, 3}
  /\ fResults[1] = <<>>
  /\ ReactionTotal(fBulk[1]) > 0
  /\ fResults[2] # <<>>
  /\ fImages[2]["stats"] # fBulk[2]
  /\ fResults[3] = <<>>
  /\ LastKnown(LastSnapshot(gist["images"][1]["snapshots"]))["likes"] = 1

\* the images of the bulk listing that refreshImageStats selects under tier
SelectedUnder(tier) ==
  LET bulk == [i \in 1..Len(fImages) |-> [fImages[i] EXCEPT !["stats"] = fBulk[i]]]
      list == RefreshListFrom(tier, bulk, RefreshNow, 1)
  IN  {list[k] : k \in 1..Len(list)}

\* C19: the images selected for refetch include every image without reactions
\* and every image created in the last 30 days; under the tier monthly also
\* every image created in the last 180 days; under quarterly every image; and
\* for one listing the daily selection is within the monthly one, which is
\* within the quarterly one.
C19_RefreshSelection ==
  fPc # "idle" =>
    LET selected == {fList[k] : k \in 1..Len(fList)}
        all == 1..Len(fImages)
    IN  /\ selected \subseteq all
        /\ \A i \in all :
             /\ ReactionTotal(fBulk[i]) = 0 => i \in selected
             /\ RefreshNow - fImages[i]["createdAt"] <= 30 => i \in selected
             /\ (fTier = "monthly" /\ RefreshNow - fImages[i]["createdAt"] <= 180)
                  => i \in selected
        /\ fTier = "quarterly" => selected = all
        /\ selected = SelectedUnder(fTier)
        /\ SelectedUnder("daily") \subseteq SelectedUnder("monthly")
        /\ SelectedUnder("monthly") \subseteq SelectedUnder("quarterly")

C19_Witness ==
  /\ fPc = "returned"
  /\ fTier = "daily"
  /\ Len(fImages) = 3
  /\ RefreshNow - fImages[1]["createdAt"] = 181
  /\ ReactionTotal(fBulk[1]) = 0
  /\ Get(fBulk[1], "commentCount") = 1
  /\ RefreshNow - fImages[2]["createdAt"] = 31
  /\ {fList[k] : k \in 1..Len(fList)} = {1, 3}
  /\ SelectedUnder("monthly") = {1, 2, 3}

\* C20: the safety check is evaluated exactly in the runs whose loaded
\* document had more than one total snapshot, and skipped in the runs whose
\* loaded document had none or one.
C20_GateEvaluatedAboveOne ==
  gateLog # "none" =>
    /\ gateLog = "checked" <=> loadedTotals > 1
    /\ gateLog = "skipped" <=> loadedTotals <= 1

\* the entries of the output that the policy put in the 6-hour tier (tier 6)
\* or in the daily tier (tier 24)
OutputOfTier(tier) == {k \in 1..Len(rOut) : TierOf(rOut[k]["timestamp"]) = tier}

\* whether the input has one snapshot per hour
IsHourly(snapshots) ==
  \A i \in 1..(Len(snapshots) - 1) :
    snapshots[i + 1]["timestamp"] - snapshots[i]["timestamp"] = TicksPerHour

\* C21: for an hourly history and any now, the output of the retention policy
\* has at most 92 snapshots aged between 7 and 30 days, and when the history
\* spans 40 days up to now it has at most 10 snapshots older than 30 days.
C21_RetentionCounts ==
  (rPc = "applied" /\ IsHourly(rIn)) =>
    /\ Cardinality(OutputOfTier(6)) <= 92
    /\ (Len(rIn) > 0 /\ rIn[1]["timestamp"] >= rNow - 40 * 24 * TicksPerHour)
         => Cardinality(OutputOfTier(24)) <= 10

\* entry index of the stored history as the Resolver of the script resolves it
\* in the whole history, with the fields the script does not record at 0
PageResolved(index) ==
  LET r == resolveSnapshot(pData, index)
  IN  [f \in PageFieldNames |-> Get(r, f)] @@ [timestamp |-> r["timestamp"]]

\* the entries of the fully resolved stored history whose timestamp lies in
\* the window of the current range
RECURSIVE WindowFrom(_)
WindowFrom(i) ==
  IF i > Len(pData) THEN <<>>
  ELSE (IF pRange = "all"
           \/ pData[i]["timestamp"] >= pNow - RangeDays(pRange) * 24 * TicksPerHour
        THEN <<PageResolved(i)>> ELSE <<>>)
       \o WindowFrom(i + 1)

C23_BoundedBatches ==
  [][/\ Cardinality(fInFlight') <= STATS_BATCH_SIZE
     /\ (fInFlight' \ fInFlight # {}) =>
          /\ fInFlight = {}
          /\ fPos' = fPos
          /\ \A j \in fInFlight' :
               \E k \in (fPos + 1)..(fPos + STATS_BATCH_SIZE) :
                 k <= Len(fList) /\ fList[k] = j]_vars

\* the second batch in flight after a first batch of STATS_BATCH_SIZE
C23_Witness ==
  /\ fPc = "waiting"
  /\ fPos = STATS_BATCH_SIZE
  /\ Len(fList) > STATS_BATCH_SIZE
  /\ fInFlight # {}
  /\ \A k \in 1..STATS_BATCH_SIZE : fList[k] \in DOMAIN fAnswers

\* C25: whatever the order in which the refetches of a batch completed, each
\* refetched image has, field by field, the larger of what its own refetch
\* returned and its own bulk value (its bulk stats when its refetch failed),
\* and every other image has its bulk stats.
C25_OwnResultMerged ==
  /\ Len(fImages) = Len(fBulk)
  /\ \A i \in 1..Len(fImages) :
       IF i \in Refreshed
       THEN /\ i \in DOMAIN fAnswers
            /\ IF Len(fAnswers[i]) > 0
               THEN \A f \in FieldNames :
                      Get(fImages[i]["stats"], StatKeyOf(f))
                        = MaxOf(Get(fAnswers[i][1], StatKeyOf(f)),
                                Get(fBulk[i], StatKeyOf(f)))
               ELSE fImages[i]["stats"] = fBulk[i]
       ELSE fImages[i]["stats"] = fBulk[i]

\* a batch whose refetches completed out of order, with a failure and two
\* different results
C25_Witness ==
  /\ fPc = "returned"
  /\ fOutOfOrder
  /\ {1, 2, 3} \subseteq Refreshed
  /\ fAnswers[1] # <<>>
  /\ fAnswers[2] # <<>>
  /\ fAnswers[1] # fAnswers[2]
  /\ fAnswers[3] = <<>>
  /\ fImages[1]["stats"] # fImages[2]["stats"]
  /\ fImages[1]["stats"] # fBulk[1]

\* whether consecutive resolved snapshots of a history differ in their
\* counters and ascend strictly in their timestamps
StrictHistory(snapshots) ==
  LET resolved == resolveAllSnapshots(snapshots)
  IN  \A k \in 1..(Len(resolved) - 1) :
        /\ CountersOf(resolved[k]) # CountersOf(resolved[k + 1])
        /\ resolved[k]["timestamp"] < resolved[k + 1]["timestamp"]

\* C24: in every entity history that the runs merge and save, starting from
\* no stored document, no two consecutive snapshots resolve to equal counters
\* and the timestamps ascend strictly.
C24_HistoriesStrict ==
  /\ \A j \in 1..Len(merge["images"]) : StrictHistory(merge["images"][j]["snapshots"])
  /\ gistFile = "doc" =>
       \A j \in 1..Len(gist["images"]) : StrictHistory(gist["images"][j]["snapshots"])

\* a saved history of two points after three runs that listed the entity, one
\* of them with unchanged counters
C24_Witness ==
  /\ outcome = "saved"
  /\ runs = 3
  /\ recorded[1]["streak"] = 3
  /\ \E j \in 1..Len(gist["images"]) :
       /\ gist["images"][j]["id"] = String(1)
       /\ Len(gist["images"][j]["snapshots"]) = 2

\* C26: every image of the merged document has at least one history point,
\* and no run ends at the abort of the safety check.
C26_GateNeverAborts ==
  /\ \A j \in 1..Len(merge["images"]) : Len(merge["images"][j]["snapshots"]) >= 1
  /\ "merge" \in steps =>
       /\ Len(existingData["images"]) = Len(apiImages)
       /\ SnapshotCount(existingData["images"]) >= Len(existingData["images"])
  /\ outcome # "gateAbort"

\* a run whose safety check was evaluated and passed, with a new entity and
\* an entity whose stored history retention cut down to one point
C26_Witness ==
  /\ outcome = "saved"
  /\ gateLog = "checked"
  /\ Len(apiImages) = 2
  /\ Len(ExistingSnapshots(loadedImages, 1)) = 2
  /\ Len(ExistingSnapshots(loadedImages, 2)) = 0
  /\ \A j \in 1..2 : Len(gist["images"][j]["snapshots"]) = 1

\* whether the first entry of a history is absolute and every later one a
\* delta entry
AbsoluteThenDeltas(snapshots) ==
  \A k \in 1..Len(snapshots) : isDelta(snapshots[k]) <=> k > 1

\* C27: after a saved run every history of the stored document, each image's
\* and the totals, has an absolute first entry and delta entries after it,
\* whatever mix of absolute and delta entries the loaded document held.
C27_SavedAbsoluteThenDeltas ==
  outcome = "saved" =>
    /\ AbsoluteThenDeltas(gist["totalSnapshots"])
    /\ \A j \in 1..Len(gist["images"]) : AbsoluteThenDeltas(gist["images"][j]["snapshots"])

\* a saved run that loaded histories starting with a delta entry followed by
\* two absolute ones
C27_Witness ==
  /\ outcome = "saved"
  /\ Len(loadedImages) = 1
  /\ Len(loadedImages[1]["snapshots"]) = 3
  /\ isDelta(loadedImages[1]["snapshots"][1])
  /\ ~isDelta(loadedImages[1]["snapshots"][2])
  /\ ~isDelta(loadedImages[1]["snapshots"][3])
  /\ isDelta(startGist[2]["totalSnapshots"][1])
  /\ Len(gist["totalSnapshots"]) = 4
  /\ \E j \in 1..Len(gist["images"]) : Len(gist["images"][j]["snapshots"]) >= 3

\* the index in the input of entry k of the output, 0 when the input does not
\* hold it; the entries of the driver's inputs differ from one another
InputIndex(k) ==
  IF \E i \in 1..Len(rIn) : rIn[i] = rOut[k]
  THEN CHOOSE i \in 1..Len(rIn) : rIn[i] = rOut[k]
  ELSE 0

\* C28: for a sorted input and a value of now, the output of the retention
\* policy is a subsequence of the input, entries unchanged and in the order of
\* the input, and for a non-empty input its last entry is the last entry of
\* the input.
C28_RetentionSubsequence ==
  rPc = "applied" =>
    /\ \A k \in 1..Len(rOut) : InputIndex(k) # 0
    /\ \A k \in 1..(Len(rOut) - 1) : InputIndex(k) < InputIndex(k + 1)
    /\ Len(rIn) > 0 => (Len(rOut) > 0 /\ rOut[Len(rOut)] = rIn[Len(rIn)])

\* an input whose last entry is in the daily tier and whose first entries the
\* policy dropped
C28_Witness ==
  /\ rPc = "applied"
  /\ Len(rIn) = MaxSnaps
  /\ TierOf(rIn[Len(rIn)]["timestamp"]) = 24
  /\ Len(rOut) < Len(rIn)
  /\ Len(rOut) >= 2

\* C30: the policy applied at now1 and then, to its output, at some now2 >=
\* now1 gives what the policy applied once to the input at now2 gives.
C30_RetentionCadenceFree ==
  rPc = "later" => rThen = rDirect

\* C29: fetchWithRetry makes at most `retries` requests and ends by returning
\* the parsed body of an ok response or by throwing; it never returns without
\* a body.
C29_ReturnsBodyOrThrows ==
  /\ Len(wLog) <= wRetries
  /\ wPc = "returned" =>
       /\ wResult = "body"
       /\ wLog[Len(wLog)]["kind"] = "ok"
  /\ wPc = "thrown" => wLog[Len(wLog)]["kind"] # "ok"

====
